---- MODULE Spec2Model ----
(***************************************************************************)
(* Maritime Market Watch (mmw): a model of the news linker                 *)
(* (src/mmw/linker.py), of the news ingestion and enrichment that feed it  *)
(* (src/mmw/news.py, src/mmw/nlp.py) and of the analytics                  *)
(* (src/mmw/analytics.py).                                                 *)
(*                                                                         *)
(* A Python str is a sequence of one-character strings, so that lower()    *)
(* and the `in` substring test are computed, not assumed.  Python's None   *)
(* is the value None below.                                                *)
(***************************************************************************)
EXTENDS Integers, Sequences, FiniteSets, Bags, TLC

(***************************************************************************)
(* Bounds of the model.                                                    *)
(***************************************************************************)
\* URLs the feeds can publish (so at most MaxUrls rows of News).
MaxUrls == 2
\* Days on which the price feed quotes.
MaxDays == 3
\* The largest window of rolling_corr.
MaxWindow == 3
\* Rows of runs the model follows.
MaxRuns == 1

(***************************************************************************)
(* Text.                                                                   *)
(***************************************************************************)
None == <<"\\None">>
\* A null datetime (a timestamp is a natural number).
NaT == -1

UpperCase == <<"A", "B", "C", "D", "E", "F", "G", "H", "I", "J", "K", "L", "M", "N", "O", "P", "Q", "R", "S", "T", "U", "V", "W", "X", "Y", "Z">>
LowerCase == <<"a", "b", "c", "d", "e", "f", "g", "h", "i", "j", "k", "l", "m", "n", "o", "p", "q", "r", "s", "t", "u", "v", "w", "x", "y", "z">>

\* str.lower() of one ASCII character.
LowerChar(c) ==
    IF \E i \in 1..26 : UpperCase[i] = c
    THEN LowerCase[CHOOSE i \in 1..26 : UpperCase[i] = c]
    ELSE c

\* str.lower()
Lower(s) == [i \in 1..Len(s) |-> LowerChar(s[i])]

\* Python's `sub in s` on str: sub occurs as a contiguous substring of s.
Contains(s, sub) ==
    \E i \in 1..(Len(s) - Len(sub) + 1) : SubSeq(s, i, i + Len(sub) - 1) = sub

\* sep.join(parts)
RECURSIVE Join(_, _)
Join(sep, parts) ==
    IF parts = <<>> THEN <<>>
    ELSE IF Len(parts) = 1 THEN parts[1]
    ELSE parts[1] \o sep \o Join(sep, Tail(parts))

\* `x or ""` on a nullable str column.
OrEmpty(x) == IF x = None THEN <<>> ELSE x

(***************************************************************************)
(* linker.py: the keyword dictionaries, in dict order.                     *)
(***************************************************************************)
MAPPINGS ==
    << [name |-> <<"M", "A", "E", "R", "S", "K">>, tickers |-> << <<"M", "A", "E", "R", "S", "K", "-", "B", ".", "C", "O">> >>],
       [name |-> <<"Z", "I", "M">>, tickers |-> << <<"Z", "I", "M">> >>],
       [name |-> <<"H", "A", "P", "A", "G">>, tickers |-> << <<"H", "L", "A", "G", ".", "D", "E">>, <<"H", "L", "A", "G", ".", "F">> >>],
       [name |-> <<"C", "O", "S", "C", "O">>, tickers |-> << <<"1", "9", "1", "9", ".", "H", "K">> >>] >>

INDEX_KEYWORDS ==
    << [code |-> <<"S", "C", "F", "I">>, keywords |-> << <<"S", "C", "F", "I">> >>],
       [code |-> <<"H", "A", "R", "P", "E", "X">>, keywords |-> << <<"H", "A", "R", "P", "E", "X">> >>],
       [code |-> <<"W", "C", "I">>, keywords |-> << <<"D", "r", "e", "w", "r", "y">>, <<"W", "o", "r", "l", "d", " ", "C", "o", "n", "t", "a", "i", "n", "e", "r", " ", "I", "n", "d", "e", "x">> >>],
       [code |-> <<"F", "B", "X">>, keywords |-> << <<"F", "B", "X">>, <<"F", "r", "e", "i", "g", "h", "t", "o", "s">> >>] >>

\* sum(1 for kw in keywords if kw.lower() in text.lower())
MatchScoreCaseSensitive(text, keywords) ==
    Cardinality({k \in 1..Len(keywords) : Contains(text, keywords[k])})

MatchScore(text, keywords) ==
    Cardinality({k \in 1..Len(keywords) : Contains(Lower(text), Lower(keywords[k]))})

(***************************************************************************)
(* What the outside world can deliver: the versions of an article a feed   *)
(* may publish under one URL, and the names the entity extractor knows.    *)
(* A URL is a number; it is only ever compared for equality.               *)
(***************************************************************************)
Urls == 1..MaxUrls

Article(title, summary, ts) == [title |-> title, summary |-> summary, ts |-> ts]

\* A timestamp counts half days, so that a day holds two of them.
VersionsOdd ==
    { Article(<<"Z", "I", "M">>, None, 2),
      Article(<<"p", "o", "r", "t">>, None, 4) }

VersionsEven ==
    { Article(<<"Z", "i", "m">>, <<>>, 3),
      Article(<<"M", "a", "e", "r", "s", "k", "-", "B", ".", "C", "O", " ", "H", "a", "p", "a", "g", " ", "W", "o", "r", "l", "d">>,
              <<"C", "o", "n", "t", "a", "i", "n", "e", "r", " ", "I", "n", "d", "e", "x", " ", "F", "B", "X", " ", "D", "r", "e", "w", "r", "y", " ", "z", "i", "m">>, 5),
      Article(<<>>, None, NaT) }

ArticleVersions(u) == IF u % 2 = 1 THEN VersionsOdd ELSE VersionsEven

EntityNames == { <<"Z", "I", "M">>, <<"C", "o", "n", "t", "a", "i", "n", "e", "r", " ", "I", "n", "d", "e", "x">> }

(***************************************************************************)
(* The database (db.py) and the position of the running linking pass.      *)
(***************************************************************************)
VARIABLES
    news,       \* table news: row id = index; url, title, summary, summary_ai, published_at
    entities,   \* table entities: for each news_id, the values of its rows in rowid order
    links,      \* table links, committed: a bag of rows news_id, asset_ticker, index_code, score
    pc,         \* "idle", or "linking" while link_news is inside its transaction
    cursor,     \* link_news: index in news_items of the next item to process
    tx_links,   \* link_news: table links as the open transaction sees it
    links0,     \* history: table links as it was when the latest link_news began
    unchanged,  \* history: the latest completed pass ran on the data of the pass before it
    lost,       \* history: the pass that just failed had made changes to links in its transaction
    dirty,      \* history: no pass has completed yet, or news or entities changed since the latest one
    last,       \* history: "link_ok" or "link_error" right after link_news returned or raised
    assets,     \* table assets: row id = index; the ticker
    prices,     \* table prices: rows asset_id, date, close, one per (asset_id, date)
    runs,       \* table runs, in id order: the status payload of each row
    indices,    \* table indices: row id = index; the code
    points,     \* table index_points: a bag of rows index_id, date, value
    result      \* the latest call of interest and what it returned or raised

vars == <<news, entities, links, pc, cursor, tx_links, links0, unchanged, lost, dirty, last,
          assets, prices, runs, indices, points, result>>

\* No analytics call is the latest operation.
NoResult == [fn |-> "none"]

\* A variant of the operations outside analytics.py that empties the table
\* runs.
NoAnalyticsClearsRuns ==
    /\ result' = NoResult
    /\ runs' = <<>>
    /\ UNCHANGED <<assets, prices, indices, points>>

\* An operation outside analytics.py and prices.py.
NoAnalytics ==
    /\ result' = NoResult
    /\ UNCHANGED <<assets, prices, runs, indices, points>>

Init ==
    /\ news = <<>>
    /\ entities = [i \in Urls |-> <<>>]
    /\ links = EmptyBag
    /\ pc = "idle"
    /\ cursor = 0
    /\ tx_links = EmptyBag
    /\ links0 = EmptyBag
    /\ unchanged = FALSE
    /\ lost = FALSE
    /\ dirty = TRUE
    /\ last = "init"
    /\ assets = <<>>
    /\ prices = {}
    /\ runs = <<>>
    /\ indices = <<>>
    /\ points = EmptyBag
    /\ result = NoResult

(***************************************************************************)
(* news.py: upsert_news.                                                   *)
(***************************************************************************)
\* A variant of the upsert that writes the whole row anew (INSERT OR
\* REPLACE), losing the derived summary.
UpsertRowReplace(tbl, row) ==
    LET fresh == [url |-> row.url, title |-> row.title, summary |-> row.summary,
                  summary_ai |-> None, published_at |-> row.ts]
    IN IF \E i \in 1..Len(tbl) : tbl[i].url = row.url
       THEN [tbl EXCEPT ![CHOOSE i \in 1..Len(tbl) : tbl[i].url = row.url] = fresh]
       ELSE Append(tbl, fresh)

\* One INSERT ... ON CONFLICT (url) DO UPDATE SET title, summary, published_at.
\* (The column source is not modelled: nothing reads it.)
UpsertRow(tbl, row) ==
    IF \E i \in 1..Len(tbl) : tbl[i].url = row.url
    THEN LET i == CHOOSE i \in 1..Len(tbl) : tbl[i].url = row.url
         IN [tbl EXCEPT ![i].title = row.title,
                        ![i].summary = row.summary,
                        ![i].published_at = row.ts]
    ELSE Append(tbl, [url |-> row.url, title |-> row.title, summary |-> row.summary,
                      summary_ai |-> None, published_at |-> row.ts])

RECURSIVE UpsertRows(_, _)
UpsertRows(tbl, batch) ==
    IF batch = <<>> THEN tbl
    ELSE UpsertRows(UpsertRow(tbl, Head(batch)), Tail(batch))

\* A feed row: an article version under its URL.
FeedRow(u, a) == [url |-> u, title |-> a.title, summary |-> a.summary, ts |-> a.ts]

FeedRows == UNION { { FeedRow(u, a) : a \in ArticleVersions(u) } : u \in Urls }

\* The URLs of a table or of a frame.
UrlsOf(rows) == { rows[i].url : i \in 1..Len(rows) }

\* A variant of the return value that counts the rows of the frame whose URL
\* was not stored, a URL that comes twice counting twice.
UpsertNewsReturnRows(tbl, batch) ==
    Cardinality({ i \in 1..Len(batch) : batch[i].url \notin UrlsOf(tbl) })

\* Lines 60-65 and 85: existing is read before the first insert; the value
\* returned is len(set(urls) - existing).
UpsertNewsReturn(tbl, batch) == Cardinality(UrlsOf(batch) \ UrlsOf(tbl))

\* upsert_news (lines 54-85); an empty frame returns 0 at once.
UpsertNews(batch) ==
    /\ pc = "idle"
    /\ news' = UpsertRows(news, batch)
    /\ result' = [fn |-> "upsert_news", value |-> UpsertNewsReturn(news, batch)]
    /\ dirty' = (dirty \/ news' # news)
    /\ last' = "other"
    /\ links0' = EmptyBag
    /\ unchanged' = FALSE
    /\ lost' = FALSE
    /\ UNCHANGED <<entities, links, pc, cursor, tx_links, assets, prices, runs,
                   indices, points>>

(***************************************************************************)
(* nlp.py: enrich_news.                                                    *)
(***************************************************************************)
\* summarize_text: "" for an empty text; TextRank over a one-sentence title
\* returns that sentence.
SummarizeText(text) == IF text = <<>> THEN <<>> ELSE text

\* extract_entities: spaCy returns spans of the text, in document order; here
\* the known names that occur in it (each text of the model holds at most one).
ExtractEntities(text) ==
    LET found == { e \in EntityNames : Contains(text, e) }
    IN IF found = {} THEN <<>> ELSE << CHOOSE e \in found : TRUE >>

\* A variant of the selection that takes every item, enriched or not.
NeedsEnrichAgain(i) == i \in 1..Len(news)

\* The rows enrich_news selects: no derived summary yet and no entity.
NeedsEnrich(i) ==
    /\ news[i].summary_ai \in { None, <<>> }
    /\ entities[i] = <<>>

EnrichNews ==
    /\ pc = "idle"
    /\ LET todo == { i \in 1..Len(news) : NeedsEnrich(i) }
           text(i) == news[i].title \o <<".", " ">> \o OrEmpty(news[i].summary)
       IN /\ todo # {}
          /\ entities' = [i \in DOMAIN entities |->
                             IF i \in todo THEN entities[i] \o ExtractEntities(text(i))
                             ELSE entities[i]]
          /\ result' = [fn |-> "enrich_news", items |-> todo]
          /\ news' = [i \in 1..Len(news) |->
                         IF i \in todo
                         THEN [news[i] EXCEPT !.summary_ai =
                                  IF news[i].summary \notin { None, <<>> }
                                  THEN news[i].summary
                                  ELSE SummarizeText(news[i].title)]
                         ELSE news[i]]
    /\ dirty' = (dirty \/ news' # news \/ entities' # entities)
    /\ last' = "other"
    /\ links0' = EmptyBag
    /\ unchanged' = FALSE
    /\ lost' = FALSE
    /\ UNCHANGED <<links, pc, cursor, tx_links, assets, prices, runs, indices, points>>

(***************************************************************************)
(* linker.py: link_news.                                                   *)
(***************************************************************************)
RECURSIVE Concat(_)
Concat(seqs) == IF seqs = <<>> THEN <<>> ELSE Head(seqs) \o Concat(Tail(seqs))

Link(id, ticker, code, score) ==
    [news_id |-> id, asset_ticker |-> ticker, index_code |-> code, score |-> score]

\* The rows added for one asset group (lines 67-79).
GroupLinksMatchedTickersOnly(id, full_text, m) ==
    LET hit == SelectSeq(m.tickers, LAMBDA t : MatchScore(full_text, <<t>>) # 0)
        score == MatchScore(full_text, <<m.name>> \o m.tickers)
    IN [k \in 1..Len(hit) |-> Link(id, hit[k], None, score)]

GroupLinks(id, full_text, m) ==
    LET keywords == <<m.name>> \o m.tickers
        score == MatchScore(full_text, keywords)
    IN IF score # 0
       THEN [k \in 1..Len(m.tickers) |-> Link(id, m.tickers[k], None, score)]
       ELSE <<>>

\* A variant of the index row that names the code as its asset as well.
IndexLinksBothTargets(id, full_text, e) ==
    IF MatchScore(full_text, e.keywords) # 0
    THEN << Link(id, e.code, e.code, MatchScore(full_text, e.keywords)) >>
    ELSE <<>>

\* The row added for one index (lines 82-92).
IndexLinksUnitScore(id, full_text, e) ==
    IF MatchScore(full_text, e.keywords) # 0
    THEN << Link(id, None, e.code, 1) >>
    ELSE <<>>

IndexLinks(id, full_text, e) ==
    LET score == MatchScore(full_text, e.keywords)
    IN IF score # 0 THEN << Link(id, None, e.code, score) >> ELSE <<>>

\* Every session.add of one item, in order.
NewLinks(id, full_text) ==
    Concat([g \in 1..Len(MAPPINGS) |-> GroupLinks(id, full_text, MAPPINGS[g])])
    \o Concat([x \in 1..Len(INDEX_KEYWORDS) |-> IndexLinks(id, full_text, INDEX_KEYWORDS[x])])

SeqToBag(rows) ==
    [r \in { rows[i] : i \in 1..Len(rows) } |->
        Cardinality({ i \in 1..Len(rows) : rows[i] = r })]

\* delete(Link).where(Link.news_id == id)
DeleteLinks(tbl, id) == [r \in { r \in DOMAIN tbl : r.news_id # id } |-> tbl[r]]

\* " ".join([item.title or "", item.summary or "", " ".join(entity_vals)])
FullText(item, entity_vals) ==
    Join(<<" ">>, << OrEmpty(item.title), OrEmpty(item.summary), Join(<<" ">>, entity_vals) >>)

\* The body of the loop over news_items for one item (lines 56-92).
ProcessItemNoDelete(tbl, id, full_text) ==
    tbl (+) SeqToBag(NewLinks(id, full_text))

ProcessItemDeleteIfMatched(tbl, id, full_text) ==
    IF NewLinks(id, full_text) = <<>> THEN tbl
    ELSE DeleteLinks(tbl, id) (+) SeqToBag(NewLinks(id, full_text))

ProcessItem(tbl, id, full_text) ==
    DeleteLinks(tbl, id) (+) SeqToBag(NewLinks(id, full_text))

\* Session.begin(): what the table holds once the block is left by an exception.
RollbackKeepsPartial(committed, pending) == pending

Rollback(committed, pending) == committed

\* Session.begin() and select(News).
LinkBegin ==
    /\ pc = "idle"
    /\ pc' = "linking"
    /\ cursor' = 1
    /\ tx_links' = links
    /\ links0' = links
    /\ unchanged' = FALSE
    /\ lost' = FALSE
    /\ last' = "other"
    /\ UNCHANGED <<news, entities, links, dirty>>
    /\ NoAnalytics

LinkItem ==
    /\ pc = "linking"
    /\ cursor <= Len(news)
    /\ tx_links' = ProcessItem(tx_links, cursor, FullText(news[cursor], entities[cursor]))
    /\ cursor' = cursor + 1
    /\ UNCHANGED <<news, entities, links, pc, links0, unchanged, lost, dirty, last>>
    /\ NoAnalytics

\* The block ends: commit.
LinkCommit ==
    /\ pc = "linking"
    /\ cursor > Len(news)
    /\ links' = tx_links
    /\ pc' = "idle"
    /\ cursor' = 0
    /\ tx_links' = EmptyBag
    /\ unchanged' = ~dirty
    /\ dirty' = FALSE
    /\ last' = "link_ok"
    /\ UNCHANGED <<news, entities, links0, lost>>
    /\ NoAnalytics

\* A statement of the pass raises (a database write fails): the exception
\* leaves the block, the transaction is rolled back, the caller sees the error.
LinkFail ==
    /\ pc = "linking"
    /\ links' = Rollback(links, tx_links)
    /\ pc' = "idle"
    /\ cursor' = 0
    /\ tx_links' = EmptyBag
    /\ lost' = (tx_links # links)
    /\ last' = "link_error"
    /\ UNCHANGED <<news, entities, links0, unchanged, dirty>>
    /\ NoAnalytics

(***************************************************************************)
(* The feeds deliver batches of one row or of two rows.                    *)
(***************************************************************************)
Batches == { <<r>> : r \in FeedRows }

Next ==
    \/ \E batch \in Batches : UpsertNews(batch)
    \/ EnrichNews
    \/ LinkBegin
    \/ LinkItem
    \/ LinkCommit
    \/ LinkFail

Spec == Init /\ [][Next]_vars

(***************************************************************************)
(* config.py and the order of strings.                                     *)
(***************************************************************************)
WATCHLIST_TICKERS ==
    << <<"Z", "I", "M">>,
       <<"M", "A", "T", "X">>,
       <<"S", "B", "L", "K">>,
       <<"G", "O", "G", "L">>,
       <<"G", "N", "K">>,
       <<"F", "R", "O">>,
       <<"D", "H", "T">>,
       <<"E", "U", "R", "N">>,
       <<"G", "S", "L">>,
       <<"D", "A", "C">>,
       <<"C", "M", "R", "E">>,
       <<"T", "R", "M", "D">>,
       <<"B", "D", "R", "Y">>,
       <<"B", "O", "A", "T">> >>

\* The characters of the model in code point order: SQLite's ORDER BY on a
\* String column and pandas' sort of a str column both compare code points.
CodePoints ==
    <<" ", "-", ".", "0", "1", "2", "3", "4", "5", "6", "7", "8", "9",
       "A", "B", "C", "D", "E", "F", "G", "H", "I", "J", "K", "L", "M", "N", "O", "P", "Q", "R", "S", "T", "U", "V", "W", "X", "Y", "Z",
       "a", "b", "c", "d", "e", "f", "g", "h", "i", "j", "k", "l", "m", "n", "o", "p", "q", "r", "s", "t", "u", "v", "w", "x", "y", "z">>

Ord(c) == CHOOSE i \in 1..Len(CodePoints) : CodePoints[i] = c

RECURSIVE StrLess(_, _)
StrLess(a, b) ==
    IF b = <<>> THEN FALSE
    ELSE IF a = <<>> THEN TRUE
    ELSE IF a[1] = b[1] THEN StrLess(Tail(a), Tail(b))
    ELSE Ord(a[1]) < Ord(b[1])

Range(s) == { s[i] : i \in 1..Len(s) }

\* The strings of the finite set S in ascending order.
SortedStrings(S) ==
    [k \in 1..Cardinality(S) |->
        CHOOSE x \in S : Cardinality({ y \in S : StrLess(y, x) }) = k - 1]

\* The integers of the finite set S in ascending order.
SortedInts(S) ==
    [k \in 1..Cardinality(S) |->
        CHOOSE x \in S : Cardinality({ y \in S : y < x }) = k - 1]

\* A datetime counts half days; a date counts days.
DateOf(ts) == ts \div 2
Midnight(day) == 2 * day

(***************************************************************************)
(* prices.py: upsert_prices.                                               *)
(***************************************************************************)
AssetId(tbl, ticker) ==
    IF \E i \in 1..Len(tbl) : tbl[i] = ticker
    THEN CHOOSE i \in 1..Len(tbl) : tbl[i] = ticker
    ELSE 0

\* A variant without the ON CONFLICT clause (and without the constraint it
\* relies on): every row is added.
PutPriceInsertOnly(tbl, id, date, close) ==
    tbl \cup { [asset_id |-> id, date |-> date, close |-> close] }

\* One INSERT ... ON CONFLICT (asset_id, date) DO UPDATE SET close.
\* (open, high, low and volume are not modelled: nothing reads them.)
PutPrice(tbl, id, date, close) ==
    { p \in tbl : ~(p.asset_id = id /\ p.date = date) }
        \cup { [asset_id |-> id, date |-> date, close |-> close] }

RECURSIVE PutPrices(_, _, _)
PutPrices(tbl, astbl, df) ==
    IF df = <<>> THEN tbl
    ELSE PutPrices(PutPrice(tbl, AssetId(astbl, Head(df).ticker), Head(df).date, Head(df).close),
                   astbl, Tail(df))

\* df.groupby("ticker") visits the tickers in ascending order; an unknown
\* ticker gets its Asset row when its group is reached.  The rows of one
\* (ticker, date) are upserted in the order of df, whatever the group order.
UpsertPrices(df) ==
    /\ pc = "idle"
    /\ LET new == SortedStrings({ r.ticker : r \in Range(df) } \ Range(assets))
       IN /\ assets' = assets \o new
          /\ prices' = PutPrices(prices, assets \o new, df)
    /\ result' = NoResult
    /\ UNCHANGED <<news, entities, links, pc, cursor, tx_links, links0, unchanged, lost,
                   dirty, last, runs, indices, points>>

(***************************************************************************)
(* indices.py: _upsert_df and import_indices_from_csv.                     *)
(***************************************************************************)
IndexId(tbl, code) ==
    IF \E i \in 1..Len(tbl) : tbl[i] = code
    THEN CHOOSE i \in 1..Len(tbl) : tbl[i] = code
    ELSE 0

PointsAt(tbl, id, date) == { r \in DOMAIN tbl : r.index_id = id /\ r.date = date }

\* A variant whose lookup never sees the stored row (no flush before the
\* select, or another key): every row is added.
UpsertPointInsertOnly(tbl, id, date, value) ==
    tbl (+) SetToBag({ [index_id |-> id, date |-> date, value |-> value] })

\* Lines 51-61: the select for (index_id, date), which flushes the pending
\* rows of the session first, then an INSERT or existing.value = value.
UpsertPoint(tbl, id, date, value) ==
    IF PointsAt(tbl, id, date) = {}
    THEN tbl (+) SetToBag({ [index_id |-> id, date |-> date, value |-> value] })
    ELSE LET existing == CHOOSE r \in PointsAt(tbl, id, date) : TRUE
         IN (tbl (-) SetToBag({existing}))
                (+) SetToBag({ [index_id |-> id, date |-> date, value |-> value] })

\* Lines 38-61 for one row of the frame; db holds both tables.
UpsertIndexRow(db, row) ==
    LET idx == IF IndexId(db.indices, row.index_code) = 0
               THEN Append(db.indices, row.index_code)
               ELSE db.indices
    IN [indices |-> idx,
        points |-> UpsertPoint(db.points, IndexId(idx, row.index_code), row.date, row.value)]

\* _upsert_df (lines 32-61): the rows in the order of the frame, in one
\* transaction.
RECURSIVE UpsertDf(_, _)
UpsertDf(db, df) ==
    IF df = <<>> THEN db
    ELSE UpsertDf(UpsertIndexRow(db, Head(df)), Tail(df))

\* The cells of a CSV file as read_csv delivers them: a date cell holds a
\* well-formed date, other text, or nothing; a value cell a number, other
\* text, or nothing; index_code and source hold text or nothing.
NullCell == [kind |-> "null", v |-> 0]
TextCell == [kind |-> "text", v |-> 0]
DateCell(day) == [kind |-> "date", v |-> day]
NumberCell(n) == [kind |-> "number", v |-> n]
NoCode == <<>>
CsvColumns == {"date", "index_code", "value", "source"}

\* pd.to_datetime(..., errors="coerce") and pd.to_numeric(..., errors="coerce").
ToDatetime(cell) == IF cell.kind = "date" THEN Midnight(cell.v) ELSE NaT
ToNumeric(cell) == IF cell.kind = "number" THEN [nan |-> FALSE, v |-> cell.v]
                   ELSE [nan |-> TRUE, v |-> 0]

\* Lines 102-106: the rows with a null cell dropped, the dates and values
\* parsed, the rows whose date or value did not parse dropped.
CleanCsv(rows) ==
    LET present == SelectSeq(rows, LAMBDA r : /\ r.date.kind # "null"
                                               /\ r.index_code # NoCode
                                               /\ r.value.kind # "null"
                                               /\ r.source.kind # "null")
        parsed == SelectSeq(present, LAMBDA r : /\ ToDatetime(r.date) # NaT
                                                /\ ~ToNumeric(r.value).nan)
    IN [k \in 1..Len(parsed) |->
           [date |-> ToDatetime(parsed[k].date),
            index_code |-> parsed[k].index_code,
            value |-> ToNumeric(parsed[k].value).v]]

\* Line 95: read_csv finds no header line in a file without any column (an
\* empty file) and raises EmptyDataError, which nothing catches.
ReadCsvFails(file) == file.exists /\ file.columns = {}

\* The frame import_indices_from_csv hands to _upsert_df (lines 90-110);
\* empty when it returns before that.
CsvFrame(file) ==
    IF ~file.exists \/ ~(CsvColumns \subseteq file.columns)
    THEN <<>>
    ELSE CleanCsv(file.rows)

\* import_indices_from_csv (lines 87-112).
ImportIndicesFromCsv(file) ==
    /\ pc = "idle"
    /\ LET db == UpsertDf([indices |-> indices, points |-> points], CsvFrame(file))
       IN /\ indices' = db.indices
          /\ points' = db.points
    /\ result' = [fn |-> "import_indices_from_csv",
                  status |-> IF ReadCsvFails(file) THEN "EmptyDataError" ELSE "ok"]
    /\ UNCHANGED <<news, entities, links, pc, cursor, tx_links, links0, unchanged, lost,
                   dirty, last, assets, prices, runs>>

\* The scrapers of refresh_indices in their order, by the code they scrape.
HARPEX == <<"H", "A", "R", "P", "E", "X">>
WCI == <<"W", "C", "I">>
SCFI == <<"S", "C", "F", "I">>
FBX == <<"F", "B", "X">>
SCRAPERS == <<HARPEX, WCI, SCFI, FBX>>

\* What a scraper comes to: None when the request or the parsing fails
\* (caught and logged inside the scraper), else a frame of one row dated
\* today.
ScraperNone == [ok |-> FALSE, value |-> 0]
ScraperFrame(k, page, today) ==
    IF page.ok
    THEN << [date |-> Midnight(today), index_code |-> SCRAPERS[k], value |-> page.value] >>
    ELSE <<>>

\* The loop of refresh_indices (lines 272-283) from scraper k on: a frame
\* is upserted in a transaction of its own; a database error in it (k in
\* dberr) rolls that transaction back and is caught and logged by line 282.
RECURSIVE RunScrapers(_, _, _, _, _)
RunScrapers(db, k, pages, today, dberr) ==
    IF k > Len(SCRAPERS) THEN db
    ELSE RunScrapers(IF k \in dberr THEN db
                     ELSE UpsertDf(db, ScraperFrame(k, pages[k], today)),
                     k + 1, pages, today, dberr)

\* The scrapers whose database error line 282 caught.
CaughtDbErrors(pages, dberr) == { k \in 1..Len(SCRAPERS) : pages[k].ok /\ k \in dberr }

\* refresh_indices (lines 267-283).  0 in dberr: the database fails inside
\* the CSV import, which is outside the try: that error, like the one of
\* read_csv, leaves refresh_indices before any scraper ran.
RefreshIndices(file, pages, today, dberr) ==
    /\ pc = "idle"
    /\ LET db0 == [indices |-> indices, points |-> points]
           csv_error == ReadCsvFails(file) \/ (0 \in dberr /\ CsvFrame(file) # <<>>)
           db == IF csv_error THEN db0
                 ELSE RunScrapers(UpsertDf(db0, CsvFrame(file)), 1, pages, today, dberr)
       IN /\ indices' = db.indices
          /\ points' = db.points
          /\ result' = [fn |-> "refresh_indices",
                        status |-> IF ReadCsvFails(file) THEN "EmptyDataError"
                                   ELSE IF csv_error THEN "db_error" ELSE "ok",
                        scrapers_run |-> IF csv_error THEN 0 ELSE Len(SCRAPERS),
                        caught |-> IF csv_error THEN {} ELSE CaughtDbErrors(pages, dberr)]
    /\ UNCHANGED <<news, entities, links, pc, cursor, tx_links, links0, unchanged, lost,
                   dirty, last, assets, prices, runs>>

(***************************************************************************)
(* analytics.py.                                                           *)
(***************************************************************************)
\* Whether Python can compile analytics.py.  Line 99 reads
\*     df["sent_len"] = df["summary_ai"].fillna(""").str.len()
\* and its three quotes open a string literal that runs on to the docstring
\* of event_study (line 149); the words after it are no Python.  Importing
\* mmw.analytics (as cli.py and tests/test_analytics.py do) raises
\* SyntaxError, and none of its functions is ever defined.
AnalyticsCompiles == FALSE

\* What a call of a function of analytics.py comes to.
Returned(fn, args, value) ==
    IF AnalyticsCompiles
    THEN [fn |-> fn, args |-> args, status |-> "ok", value |-> value]
    ELSE [fn |-> fn, args |-> args, status |-> "SyntaxError"]

\* A float that is a quotient of two integers, kept exact.
Frac(n, d) == [num |-> n, den |-> d]
FracEq(a, b) == a.num * b.den = b.num * a.den

\* The rows of the query of compute_daily_returns (lines 63-68).
PriceRows(tickers) ==
    { [ticker |-> assets[p.asset_id], date |-> p.date, close |-> p.close] :
        p \in { p \in prices : assets[p.asset_id] \in Range(tickers) } }

TickerDateLess(a, b) ==
    \/ StrLess(a.ticker, b.ticker)
    \/ a.ticker = b.ticker /\ a.date < b.date

\* ORDER BY ticker, date, and sort_values(["ticker", "date"]).
SortedByTickerDate(S) ==
    [k \in 1..Cardinality(S) |->
        CHOOSE x \in S : Cardinality({ y \in S : TickerDateLess(y, x) }) = k - 1]

\* compute_daily_returns (lines 60-80): pct_change within each ticker, the
\* first row of each ticker (a null return) dropped.
ComputeDailyReturns(tickers) ==
    IF tickers = <<>> THEN <<>>
    ELSE LET df == SortedByTickerDate(PriceRows(tickers))
             has_ret(i) == i > 1 /\ df[i - 1].ticker = df[i].ticker
             kept == SortedInts({ i \in 1..Len(df) : has_ret(i) })
         IN [k \in 1..Len(kept) |->
                [date |-> df[kept[k]].date,
                 ticker |-> df[kept[k]].ticker,
                 ret |-> Frac(df[kept[k]].close - df[kept[k] - 1].close,
                              df[kept[k] - 1].close)]]

CallComputeDailyReturns(tickers) ==
    /\ pc = "idle"
    /\ result' = Returned("compute_daily_returns", tickers, ComputeDailyReturns(tickers))
    /\ UNCHANGED <<news, entities, links, pc, cursor, tx_links, links0, unchanged, lost,
                   dirty, last, assets, prices, runs, indices, points>>

\* sum of f over the finite set S of integers.
RECURSIVE SumOver(_, _)
SumOver(S, f) ==
    IF S = {} THEN 0
    ELSE LET x == CHOOSE x \in S : TRUE
         IN f[x] + SumOver(S \ {x}, f)

\* news_intensity (lines 91-107), line 99 read as fillna("").str.len():
\* one row per date in ascending order; groupby drops the rows whose
\* published_at is null.
NewsIntensity ==
    IF news = <<>> THEN <<>>
    ELSE LET dated == { i \in 1..Len(news) : news[i].published_at # NaT }
             days == SortedInts({ DateOf(news[i].published_at) : i \in dated })
             sent_len == [i \in 1..Len(news) |-> Len(OrEmpty(news[i].summary_ai))]
             on(day) == { i \in dated : DateOf(news[i].published_at) = day }
         IN [k \in 1..Len(days) |->
                [date |-> days[k],
                 news_count |-> Cardinality(on(days[k])),
                 avg_sentiment |-> Frac(SumOver(on(days[k]), sent_len),
                                        Cardinality(on(days[k])))]]

CallNewsIntensity ==
    /\ pc = "idle"
    /\ result' = Returned("news_intensity", <<>>, NewsIntensity)
    /\ UNCHANGED <<news, entities, links, pc, cursor, tx_links, links0, unchanged, lost,
                   dirty, last, assets, prices, runs, indices, points>>

\* Not a number: a null of a float column.
NaN == [nan |-> TRUE]

\* Pearson's correlation of the paired observations xs, ys, kept as the
\* observations it is computed from; null for fewer than two pairs or a
\* series without variance.
Pearson(xs, ys) ==
    IF \/ Len(xs) < 2
       \/ \A i \in 1..Len(xs) : FracEq(xs[i], xs[1])
       \/ \A i \in 1..Len(ys) : FracEq(ys[i], ys[1])
    THEN NaN
    ELSE [nan |-> FALSE, x |-> xs, y |-> ys]

\* itertools.combinations(cols, 2), in its order.
Combinations2(cols) ==
    Concat([i \in 1..Len(cols) |->
               [j \in 1..(Len(cols) - i) |-> <<cols[i], cols[i + j]>>]])

\* rolling_corr (lines 127-143): the pivot to a date x ticker matrix, then
\* for each pair of columns one row per date of the matrix; rolling(window)
\* needs window rows, all of them with a value in both columns.
RollingCorr(ret_df, window) ==
    IF ret_df = <<>> THEN <<>>
    ELSE LET dates == SortedInts({ r.date : r \in Range(ret_df) })
             cols == SortedStrings({ r.ticker : r \in Range(ret_df) })
             has(d, tk) == \E r \in Range(ret_df) : r.date = d /\ r.ticker = tk
             wide(d, tk) == (CHOOSE r \in Range(ret_df) : r.date = d /\ r.ticker = tk).ret
             corr(a, b, k) ==
                 IF /\ k >= window
                    /\ \A m \in (k - window + 1)..k : has(dates[m], a) /\ has(dates[m], b)
                 THEN Pearson([m \in 1..window |-> wide(dates[k - window + m], a)],
                              [m \in 1..window |-> wide(dates[k - window + m], b)])
                 ELSE NaN
             frame(p) == [k \in 1..Len(dates) |->
                             [date |-> dates[k],
                              pair |-> p[1] \o <<"-">> \o p[2],
                              corr |-> corr(p[1], p[2], k)]]
             pairs == Combinations2(cols)
         IN Concat([n \in 1..Len(pairs) |-> frame(pairs[n])])

\* rolling_corr over the returns of the stored prices.
CallRollingCorr(tickers, window) ==
    /\ pc = "idle"
    /\ result' = Returned("rolling_corr", [tickers |-> tickers, window |-> window],
                          RollingCorr(ComputeDailyReturns(tickers), window))
    /\ UNCHANGED <<news, entities, links, pc, cursor, tx_links, links0, unchanged, lost,
                   dirty, last, assets, prices, runs, indices, points>>

RECURSIVE GCD(_, _)
GCD(a, b) == IF b = 0 THEN a ELSE GCD(b, a % b)

\* The same quotient in lowest terms (a float has no numerator to grow).
Reduce(f) ==
    LET g == GCD(IF f.num < 0 THEN 0 - f.num ELSE f.num, f.den)
    IN Frac(f.num \div g, f.den \div g)

FracAdd(a, b) == Reduce(Frac(a.num * b.den + b.num * a.den, a.den * b.den))
FracSub(a, b) == Reduce(Frac(a.num * b.den - b.num * a.den, a.den * b.den))

\* The sum of the fractions fs[i], i in the finite set S.
RECURSIVE FracSum(_, _)
FracSum(S, fs) ==
    IF S = {} THEN Frac(0, 1)
    ELSE LET x == CHOOSE x \in S : TRUE
         IN FracAdd(fs[x], FracSum(S \ {x}, fs))

FracMean(S, fs) ==
    LET total == FracSum(S, fs) IN Reduce(Frac(total.num, total.den * Cardinality(S)))

\* _save_run (lines 25-38): one more row of runs, its status the JSON of
\* name and data.
SaveRun(tbl, name, data) == Append(tbl, [name |-> name, data |-> data])

\* event_study, lines 163-169: per date the equal-weight mean of the returns
\* ret_df; the target's return less that mean, in date order.
AbnormalReturns(ret_df, ticker) ==
    LET market(d) == FracMean({ i \in 1..Len(ret_df) : ret_df[i].date = d },
                              [i \in 1..Len(ret_df) |-> ret_df[i].ret])
        ticker_ret == SelectSeq(ret_df, LAMBDA r : r.ticker = ticker)
    IN [k \in 1..Len(ticker_ret) |->
           [date |-> ticker_ret[k].date,
            abret |-> FracSub(ticker_ret[k].ret, market(ticker_ret[k].date))]]

\* Lines 172-178: published_at of the News rows joined to the Link rows of
\* the ticker.
LinkedPublishedAt(ticker) ==
    { news[r.news_id].published_at :
        r \in { r \in DOMAIN links : r.asset_ticker = ticker } }

\* Line 183: the distinct dates among them.  (A linked item without
\* published_at is left out: the feeds of this model deliver none.)
EventDates(ticker) == { DateOf(ts) : ts \in LinkedPublishedAt(ticker) \ {NaT} }

\* Lines 185-206.  For each event date, merged.loc[start:end] keeps the rows
\* dated from midnight of event date + window[0] to midnight of
\* event date + window[1], both included, and tags each with its offset in
\* days; the groupby then gives one row per offset in ascending order, with
\* the abnormal returns it aggregates and their count.  (The mean and the
\* standard deviation are functions of these abnormal returns.)
EventStudyAgg(ret_df, ticker, window) ==
    LET merged == AbnormalReturns(ret_df, ticker)
        eds == SortedInts(EventDates(ticker))
        in_window(ed, m) == /\ Midnight(ed + window[1]) <= m.date
                            /\ m.date <= Midnight(ed + window[2])
        events == Concat([e \in 1..Len(eds) |->
                      LET sub == SelectSeq(merged, LAMBDA m : in_window(eds[e], m))
                      IN [k \in 1..Len(sub) |->
                             [rel_day |-> DateOf(sub[k].date) - eds[e],
                              abret |-> sub[k].abret]]])
        rel_days == SortedInts({ ev.rel_day : ev \in Range(events) })
    IN [k \in 1..Len(rel_days) |->
           LET grp == SelectSeq(events, LAMBDA ev : ev.rel_day = rel_days[k])
           IN [rel_day |-> rel_days[k],
               abrets |-> [n \in 1..Len(grp) |-> grp[n].abret],
               n_events |-> Len(grp)]]

\* event_study (lines 146-209) over the returns of the watchlist: the three
\* early returns give the empty frame and save nothing.
EventStudy(ticker, window) ==
    LET ret_df == ComputeDailyReturns(WATCHLIST_TICKERS)
    IN IF ret_df = <<>> \/ LinkedPublishedAt(ticker) = {}
       THEN <<>>
       ELSE EventStudyAgg(ret_df, ticker, window)

\* A call of event_study; line 208 saves the aggregate when it is reached.
CallEventStudy(ticker, window) ==
    /\ pc = "idle"
    /\ LET agg == EventStudy(ticker, window)
       IN /\ result' = Returned("event_study", [ticker |-> ticker, window |-> window], agg)
          /\ runs' = IF AnalyticsCompiles /\ agg # <<>>
                     THEN SaveRun(runs, <<"event_study_">> \o ticker, agg)
                     ELSE runs
    /\ Len(runs') <= MaxRuns
    /\ UNCHANGED <<news, entities, links, pc, cursor, tx_links, links0, unchanged, lost,
                   dirty, last, assets, prices, indices, points>>

(***************************************************************************)
(* The refresh: prices.py refresh_watchlist_prices, news.py refresh_news,  *)
(* cli.py refresh_all; report.py build_site.                               *)
(***************************************************************************)
\* fetch_prices_yf (lines 21-38): a download that raises is logged and
\* comes back as an empty frame, like a download without rows.
FetchPricesYf(download) == IF download.ok THEN download.rows ELSE <<>>

\* upsert_prices on the frame of the download.
RefreshedPrices(astbl, tbl, download) ==
    LET df == FetchPricesYf(download)
        new == SortedStrings({ r.ticker : r \in Range(df) } \ Range(astbl))
    IN [assets |-> astbl \o new, prices |-> PutPrices(tbl, astbl \o new, df)]

\* refresh_watchlist_prices (lines 95-101).
RefreshWatchlistPrices(download) ==
    /\ pc = "idle"
    /\ assets' = RefreshedPrices(assets, prices, download).assets
    /\ prices' = RefreshedPrices(assets, prices, download).prices
    /\ result' = [fn |-> "refresh_watchlist_prices", status |-> "ok"]
    /\ UNCHANGED <<news, entities, links, pc, cursor, tx_links, links0, unchanged, lost,
                   dirty, last, runs, indices, points>>

\* fetch_rss (lines 20-40): a feed whose parsing raises is logged and gives
\* no item.
FetchRss(feed) == IF feed.ok THEN feed.entries ELSE <<>>

\* A variant of drop_duplicates that keeps the last row of each URL.
DropDuplicatesKeepLast(df) ==
    LET keep == SortedInts({ i \in 1..Len(df) :
                               \A j \in (i + 1)..Len(df) : df[j].url # df[i].url })
    IN [k \in 1..Len(keep) |-> df[keep[k]]]

\* drop_duplicates(subset="url"): the first row of each URL stays.
DropDuplicates(df) ==
    LET keep == SortedInts({ i \in 1..Len(df) : \A j \in 1..(i - 1) : df[j].url # df[i].url })
    IN [k \in 1..Len(keep) |-> df[keep[k]]]

\* The loop of refresh_news (lines 92-101): a feed without items is skipped,
\* the items of another are upserted.
RECURSIVE RefreshedNews(_, _)
RefreshedNews(tbl, feeds) ==
    IF feeds = <<>> THEN tbl
    ELSE RefreshedNews(IF FetchRss(Head(feeds)) = <<>> THEN tbl
                       ELSE UpsertRows(tbl, DropDuplicates(FetchRss(Head(feeds)))),
                       Tail(feeds))

\* The frames refresh_news hands to upsert_news (line 99), in order; the
\* result of the call also keeps how many items each feed gave (line 93).
UpsertCalls(feeds) ==
    SelectSeq([k \in 1..Len(feeds) |->
                  IF FetchRss(feeds[k]) = <<>> THEN <<>>
                  ELSE DropDuplicates(FetchRss(feeds[k]))],
              LAMBDA df : df # <<>>)

\* refresh_news (lines 88-102).
RefreshNews(feeds) ==
    /\ pc = "idle"
    /\ news' = RefreshedNews(news, feeds)
    /\ result' = [fn |-> "refresh_news", status |-> "ok",
                  fetched |-> [k \in 1..Len(feeds) |-> Len(FetchRss(feeds[k]))],
                  upserts |-> UpsertCalls(feeds)]
    /\ dirty' = (dirty \/ news' # news)
    /\ last' = "other"
    /\ links0' = EmptyBag
    /\ unchanged' = FALSE
    /\ lost' = FALSE
    /\ UNCHANGED <<entities, links, pc, cursor, tx_links, assets, prices, runs,
                   indices, points>>

\* enrich_news as a function of the tables news and entities.
EnrichTodo(nw, en) ==
    { i \in 1..Len(nw) : nw[i].summary_ai \in { None, <<>> } /\ en[i] = <<>> }

EnrichedEntities(nw, en) ==
    [i \in DOMAIN en |->
        IF i \in EnrichTodo(nw, en)
        THEN en[i] \o ExtractEntities(nw[i].title \o <<".", " ">> \o OrEmpty(nw[i].summary))
        ELSE en[i]]

EnrichedNews(nw, en) ==
    [i \in 1..Len(nw) |->
        IF i \in EnrichTodo(nw, en)
        THEN [nw[i] EXCEPT !.summary_ai =
                 IF nw[i].summary \notin { None, <<>> }
                 THEN nw[i].summary
                 ELSE SummarizeText(nw[i].title)]
        ELSE nw[i]]

\* link_news as a function of the tables: the loop over news_items from
\* item i on, then the commit.
RECURSIVE LinkedNews(_, _, _, _)
LinkedNews(tbl, nw, en, i) ==
    IF i > Len(nw) THEN tbl
    ELSE LinkedNews(ProcessItem(tbl, i, FullText(nw[i], en[i])), nw, en, i + 1)

\* The steps of refresh_all in their order (cli.py lines 29-33).
RefreshSteps == <<"prices", "indices", "news", "enrich", "link">>

\* The command refresh-all (cli.py lines 25-34).  Line 9 of cli.py imports
\* mmw.analytics: when that file does not compile the command ends in the
\* import and no step runs.  A data/indices_manual.csv that read_csv cannot
\* read ends the command in its second step.
RefreshAll(download, file, pages, today, feeds) ==
    /\ pc = "idle"
    /\ IF ~AnalyticsCompiles
       THEN /\ result' = [fn |-> "refresh_all", status |-> "SyntaxError", steps |-> <<>>]
            /\ UNCHANGED <<news, entities, links, links0, unchanged, lost, dirty, last,
                           assets, prices, indices, points>>
       ELSE LET px == RefreshedPrices(assets, prices, download)
                db0 == [indices |-> indices, points |-> points]
                db == RunScrapers(UpsertDf(db0, CsvFrame(file)), 1, pages, today, {})
                fetched == RefreshedNews(news, feeds)
                nw == EnrichedNews(fetched, entities)
                en == EnrichedEntities(fetched, entities)
            IN /\ assets' = px.assets
               /\ prices' = px.prices
               /\ IF ReadCsvFails(file)
                  THEN /\ result' = [fn |-> "refresh_all", status |-> "EmptyDataError",
                                     steps |-> SubSeq(RefreshSteps, 1, 1)]
                       /\ last' = "other"
                       /\ UNCHANGED <<news, entities, links, links0, unchanged, lost, dirty,
                                      indices, points>>
                  ELSE /\ result' = [fn |-> "refresh_all", status |-> "ok",
                                     steps |-> RefreshSteps]
                       /\ indices' = db.indices
                       /\ points' = db.points
                       /\ news' = nw
                       /\ entities' = en
                       /\ links' = LinkedNews(links, nw, en, 1)
                       /\ links0' = links
                       /\ unchanged' = ~(dirty \/ nw # news \/ en # entities)
                       /\ lost' = FALSE
                       /\ dirty' = FALSE
                       /\ last' = "link_ok"
    /\ UNCHANGED <<pc, cursor, tx_links, runs>>

\* The table reads of build_site, each inside a try of its own: the frames
\* of build_price_charts (lines 37-41), build_index_charts (80-84),
\* build_news_dash (119-123) and build_insights (161-176).
SiteReads == {"price_charts", "index_charts", "news_dash", "insights_news", "insights_prices"}

\* build_site (lines 225-271): a read in which the database fails gives an
\* empty frame (except Exception), so the page is written without its rows;
\* nothing is logged and build_site returns.  One chart per ticker with a
\* price, one per code with a point, the news table of the stored rows.
BuildSite(failed) ==
    /\ pc = "idle"
    /\ result' = [fn |-> "build_site",
                  status |-> "ok",
                  price_charts |-> IF "price_charts" \in failed THEN {}
                                   ELSE { assets[p.asset_id] : p \in prices },
                  index_charts |-> IF "index_charts" \in failed THEN {}
                                   ELSE { indices[r.index_id] : r \in DOMAIN points },
                  news_rows |-> IF "news_dash" \in failed THEN 0 ELSE Len(news),
                  caught |-> failed]
    /\ UNCHANGED <<news, entities, links, pc, cursor, tx_links, links0, unchanged, lost,
                   dirty, last, assets, prices, runs, indices, points>>

(***************************************************************************)
(* Prices and returns: the price feed delivers closes for AAA, BBB and     *)
(* CCC on the days 1..MaxDays.                                             *)
(***************************************************************************)
AAA == <<"A", "A", "A">>
BBB == <<"B", "B", "B">>
CCC == <<"C", "C", "C">>

\* AAA closes at 100 or 110 on any day; BBB at 200 on day 1 and at 220 after
\* it; CCC at 50 throughout.
Closes(ticker, day) ==
    IF ticker = AAA THEN {100, 110}
    ELSE IF ticker = BBB THEN (IF day = 1 THEN {200} ELSE {220})
    ELSE {50}

PriceFeedRows ==
    UNION { { [ticker |-> x[1], date |-> Midnight(x[2]), close |-> c] : c \in Closes(x[1], x[2]) } :
            x \in {AAA, BBB, CCC} \X (1..MaxDays) }

PriceBatches == { <<r>> : r \in PriceFeedRows }

TickerLists == { <<>>, <<AAA, BBB>>, <<BBB, CCC, AAA>>, <<CCC, <<"D", "D", "D">>>> }

CorrTickerLists == { <<AAA, BBB>>, <<BBB, CCC, AAA>> }

NextReturns ==
    \/ \E df \in PriceBatches : UpsertPrices(df)
    \/ \E tickers \in TickerLists : CallComputeDailyReturns(tickers)
    \/ \E tickers \in CorrTickerLists : \E window \in 1..MaxWindow :
          CallRollingCorr(tickers, window)

SpecReturns == Init /\ [][NextReturns]_vars

(***************************************************************************)
(* News intensity: the feeds, the enrichment, and the aggregation.         *)
(***************************************************************************)
NextIntensity ==
    \/ \E batch \in Batches : UpsertNews(batch)
    \/ EnrichNews
    \/ CallNewsIntensity

SpecIntensity == Init /\ [][NextIntensity]_vars

(***************************************************************************)
(* The event study: the quotes of ZIM and MATX, the news feed, the linker  *)
(* and event_study.                                                        *)
(***************************************************************************)
ZIM == <<"Z", "I", "M">>
MATX == <<"M", "A", "T", "X">>

\* ZIM closes at 100, 110, 120, ... on the days 1, 2, 3, ...; MATX stays
\* at 50.
Quote(ticker, day) ==
    [ticker |-> ticker, date |-> Midnight(day),
     close |-> IF ticker = ZIM THEN 90 + 10 * day ELSE 50]

\* One download delivers a day's quotes: both tickers, or ZIM alone.
QuoteBatches ==
    { <<Quote(ZIM, d), Quote(MATX, d)>> : d \in 1..MaxDays }
        \cup { <<Quote(ZIM, d)>> : d \in 1..MaxDays }

\* The feed items that carry a publication time.
DatedBatches == { <<r>> : r \in { r \in FeedRows : r.ts # NaT } }

StudyWindows == { <<-1, 1>>, <<0, 0>>, <<1, 2>> }

NextEvent ==
    \/ \E df \in QuoteBatches : UpsertPrices(df)
    \/ \E batch \in DatedBatches : UpsertNews(batch)
    \/ LinkBegin
    \/ LinkItem
    \/ LinkCommit
    \/ \E ticker \in {ZIM, MATX} : \E window \in StudyWindows :
          CallEventStudy(ticker, window)

SpecEvent == Init /\ [][NextEvent]_vars

(***************************************************************************)
(* Empty inputs: news without links, the quotes of ZIM alone, and the four *)
(* analytics.                                                              *)
(***************************************************************************)
NextEmpty ==
    \/ \E batch \in Batches : UpsertNews(batch)
    \/ \E d \in 1..MaxDays : UpsertPrices(<<Quote(ZIM, d)>>)
    \/ \E tickers \in {<<>>, <<MATX>>, <<ZIM>>} : CallComputeDailyReturns(tickers)
    \/ CallNewsIntensity
    \/ \E tickers \in {<<ZIM>>, <<MATX, ZIM>>} : \E window \in 1..MaxWindow :
          CallRollingCorr(tickers, window)
    \/ \E ticker \in {ZIM, MATX} : \E window \in StudyWindows :
          CallEventStudy(ticker, window)

SpecEmpty == Init /\ [][NextEmpty]_vars

(***************************************************************************)
(* Ingestion of news: frames of up to two rows, a URL twice among them.    *)
(***************************************************************************)
NewsBatches ==
    {<<>>} \cup { <<r>> : r \in FeedRows } \cup { <<r, s>> : r \in FeedRows, s \in FeedRows }

NextNews ==
    \/ \E batch \in NewsBatches : UpsertNews(batch)
    \/ EnrichNews

SpecNews == Init /\ [][NextNews]_vars

(***************************************************************************)
(* Ingestion of prices: AAA and BBB quoted day by day, alone or in one     *)
(* frame, and AAA's close of a day revised to 105 once it was quoted.      *)
(***************************************************************************)
QuoteRows(ticker) ==
    { r \in PriceFeedRows : r.ticker = ticker }

FrameBatches ==
    { <<r>> : r \in QuoteRows(AAA) \cup QuoteRows(BBB) }
        \cup { <<r, s>> : r \in QuoteRows(BBB), s \in QuoteRows(AAA) }

RevisionBatches ==
    { <<[ticker |-> AAA, date |-> Midnight(d), close |-> 105]>> : d \in 1..MaxDays }

\* Every row of the frame has its (asset, date) stored.
Quoted(df) ==
    \A i \in 1..Len(df) :
        \E p \in prices : assets[p.asset_id] = df[i].ticker /\ p.date = df[i].date

NextPrices ==
    \/ \E df \in FrameBatches : UpsertPrices(df)
    \/ \E df \in RevisionBatches : Quoted(df) /\ UpsertPrices(df)

SpecPrices == Init /\ [][NextPrices]_vars

(***************************************************************************)
(* Index values: CSV files of up to two rows, sound and defective, and     *)
(* the refresh with its four scrapers.                                     *)
(***************************************************************************)
TEST == <<"T", "E", "S", "T">>

CsvRow(date, code, value, source) ==
    [date |-> date, index_code |-> code, value |-> value, source |-> source]

ValidCsvRows ==
    { CsvRow(DateCell(d), TEST, NumberCell(v), TextCell) : d \in 1..2, v \in 1..2 }
        \cup { CsvRow(DateCell(1), HARPEX, NumberCell(2), TextCell) }

DefectiveCsvRows ==
    { CsvRow(NullCell, TEST, NumberCell(1), TextCell),
      CsvRow(TextCell, TEST, NumberCell(1), TextCell),
      CsvRow(DateCell(1), NoCode, NumberCell(1), TextCell),
      CsvRow(DateCell(1), TEST, NullCell, TextCell),
      CsvRow(DateCell(1), TEST, TextCell, TextCell),
      CsvRow(DateCell(1), TEST, NumberCell(1), NullCell) }

CsvRows == ValidCsvRows \cup DefectiveCsvRows

MissingFile == [exists |-> FALSE, columns |-> {}, rows |-> <<>>]
EmptyFile == [exists |-> TRUE, columns |-> {}, rows |-> <<>>]
CsvFile(rows) == [exists |-> TRUE, columns |-> CsvColumns, rows |-> rows]

\* No file; an empty file; a file that lacks a column; files of one row, and of two rows
\* the second of which is TEST at 2 on day 1 or at 1 on day 2.
CsvFiles ==
    {MissingFile, EmptyFile}
        \cup { [exists |-> TRUE, columns |-> CsvColumns \ {c},
                rows |-> <<CsvRow(DateCell(1), TEST, NumberCell(1), TextCell)>>] :
                 c \in CsvColumns }
        \cup { CsvFile(<<r>>) : r \in CsvRows }
        \cup { CsvFile(<<r, s>>) :
                 r \in CsvRows,
                 s \in { CsvRow(DateCell(1), TEST, NumberCell(2), TextCell),
                         CsvRow(DateCell(2), TEST, NumberCell(1), TextCell) } }

\* The pages the scrapers meet: all down; all up but at most one, giving the
\* value 1; or all up with HARPEX at 2.
Pages ==
    { [k \in 1..Len(SCRAPERS) |-> ScraperNone] }
        \cup { [k \in 1..Len(SCRAPERS) |->
                   IF k = down THEN ScraperNone ELSE [ok |-> TRUE, value |-> 1]] :
                 down \in 0..Len(SCRAPERS) }
        \cup { [k \in 1..Len(SCRAPERS) |-> [ok |-> TRUE, value |-> IF k = 1 THEN 2 ELSE 1]] }

\* The operations in which the database fails: none, the CSV import, or the
\* upsert of the second scraper.
DbErrors == { {}, {0}, {2} }

\* data/indices_manual.csv as refresh_indices finds it: missing, or with
\* HARPEX at 2 on day 1.
RefreshFiles ==
    {MissingFile, CsvFile(<<CsvRow(DateCell(1), HARPEX, NumberCell(2), TextCell)>>)}

NextIndices ==
    \/ \E file \in CsvFiles : ImportIndicesFromCsv(file)
    \/ \E file \in RefreshFiles :
       \E pages \in Pages : RefreshIndices(file, pages, 1, {})

SpecIndices == Init /\ [][NextIndices]_vars

(***************************************************************************)
(* The refresh and the site: the sources are up or down, the database      *)
(* fails in at most one operation.                                         *)
(***************************************************************************)
SourceDown == [ok |-> FALSE, rows |-> <<>>]
Downloads == { SourceDown, [ok |-> TRUE, rows |-> <<Quote(ZIM, 1), Quote(MATX, 1)>>] }

FeedDown == [ok |-> FALSE, entries |-> <<>>]
FeedUp(entries) == [ok |-> TRUE, entries |-> entries]

\* The feeds of RSS_FEEDS (config.py lines 30-34).  A feed that is up
\* delivers one article: the first the port article under URL 1, the second
\* the Zim article under URL 2, the third the ZIM article under URL 1.
RSS_FEEDS == 1..3

FeedEntries(k) ==
    IF k = 1 THEN <<FeedRow(1, Article(<<"p", "o", "r", "t">>, None, 4))>>
    ELSE IF k = 2 THEN <<FeedRow(2, Article(<<"Z", "i", "m">>, <<>>, 3))>>
    ELSE <<FeedRow(1, Article(<<"Z", "I", "M">>, None, 2))>>

Feeds ==
    { [k \in RSS_FEEDS |-> IF k \in down THEN FeedDown ELSE FeedUp(FeedEntries(k))] :
        down \in SUBSET RSS_FEEDS }

\* The pages of a refresh: all up, all down, or the second scraper down.
RefreshPages ==
    { [k \in 1..Len(SCRAPERS) |->
          IF k \in down THEN ScraperNone ELSE [ok |-> TRUE, value |-> 1]] :
        down \in { {}, {2}, 1..Len(SCRAPERS) } }

NextRefresh ==
    \/ \E download \in Downloads : \E file \in RefreshFiles :
       \E pages \in RefreshPages : \E feeds \in Feeds :
           RefreshAll(download, file, pages, 1, feeds)
    \/ \E download \in Downloads : RefreshWatchlistPrices(download)
    \/ \E file \in RefreshFiles : \E pages \in RefreshPages : \E dberr \in DbErrors :
           RefreshIndices(file, pages, 1, dberr)
    \/ \E feeds \in Feeds : RefreshNews(feeds)
    \/ \E failed \in {{}} \cup { {r} : r \in SiteReads } : BuildSite(failed)

SpecRefresh == Init /\ [][NextRefresh]_vars

(***************************************************************************)
(* The audit log: every kind of operation on a database file that holds    *)
(* no Run yet, or the Run that an event study of ZIM saved in it.          *)
(***************************************************************************)
\* A row of runs as _save_run stores it: the aggregate of one offset.
StoredRun ==
    [name |-> <<"event_study_">> \o ZIM,
     data |-> << [rel_day |-> 0, abrets |-> <<Frac(0, 1)>>, n_events |-> 1] >>]

InitRuns ==
    /\ news = <<>>
    /\ entities = [i \in Urls |-> <<>>]
    /\ links = EmptyBag
    /\ pc = "idle"
    /\ cursor = 0
    /\ tx_links = EmptyBag
    /\ links0 = EmptyBag
    /\ unchanged = FALSE
    /\ lost = FALSE
    /\ dirty = TRUE
    /\ last = "init"
    /\ assets = <<>>
    /\ prices = {}
    /\ runs \in { <<>>, <<StoredRun>> }
    /\ indices = <<>>
    /\ points = EmptyBag
    /\ result = NoResult

NextRuns ==
    \/ \E a \in VersionsOdd : UpsertNews(<<FeedRow(1, a)>>)
    \/ EnrichNews
    \/ LinkBegin
    \/ LinkItem
    \/ LinkCommit
    \/ LinkFail
    \/ \E d \in 1..2 : UpsertPrices(<<Quote(ZIM, d), Quote(MATX, d)>>)
    \/ \E file \in RefreshFiles : ImportIndicesFromCsv(file)
    \/ CallNewsIntensity
    \/ CallEventStudy(ZIM, <<0, 0>>)
    \/ BuildSite({})

SpecRuns == InitRuns /\ [][NextRuns]_vars

(***************************************************************************)
(* The feeds of refresh_news: the first delivers up to two items of the    *)
(* URLs 1 and 2, a URL twice among them; the second is down or delivers the port article; the  *)
(* third is down.                                                          *)
(***************************************************************************)
FirstFeeds ==
    LET rows == { r \in FeedRows : r.url <= 2 }
    IN { FeedDown, FeedUp(<<>>) }
           \cup { FeedUp(<<r>>) : r \in rows }
           \cup { FeedUp(<<r, s>>) : r \in rows, s \in rows }

FeedLists ==
    { <<f, g, FeedDown>> : f \in FirstFeeds, g \in { FeedDown, FeedUp(FeedEntries(1)) } }

NextFeeds ==
    \E feeds \in FeedLists : RefreshNews(feeds)

SpecFeeds == Init /\ [][NextFeeds]_vars

(***************************************************************************)
(* The event study of an alias ticker: MAERSK-B.CO, which the linker       *)
(* emits and the watchlist lacks, is quoted next to ZIM and MATX and is    *)
(* linked to the Maersk article.                                           *)
(***************************************************************************)
MAERSK_B == MAPPINGS[1].tickers[1]

\* MAERSK-B.CO closes at 220, 240, ... on the days 1, 2, ...
AliasQuote(day) == [ticker |-> MAERSK_B, date |-> Midnight(day), close |-> 200 + 20 * day]

AliasBatches ==
    { <<Quote(ZIM, d), Quote(MATX, d), AliasQuote(d)>> : d \in 1..3 }

NextAlias ==
    \/ \E df \in AliasBatches : UpsertPrices(df)
    \/ \E a \in { a \in VersionsEven : a.ts # NaT } : UpsertNews(<<FeedRow(2, a)>>)
    \/ LinkBegin
    \/ LinkItem
    \/ LinkCommit
    \/ \E ticker \in {MAERSK_B, ZIM} : CallEventStudy(ticker, <<-1, 1>>)

SpecAlias == Init /\ [][NextAlias]_vars

(***************************************************************************)
(* The linker's contract.                                                  *)
(***************************************************************************)
\* Two strings that differ at most in the case of their letters.
SameLetter(a, b) ==
    \/ a = b
    \/ \E k \in 1..26 : {a, b} = {UpperCase[k], LowerCase[k]}

EqualsIgnoreCase(s, t) ==
    /\ Len(s) = Len(t)
    /\ \A i \in 1..Len(s) : SameLetter(s[i], t[i])

\* kw occurs in hay as a substring, letter case ignored.
OccursIgnoringCase(hay, kw) ==
    \E i \in 1..(Len(hay) - Len(kw) + 1) :
        EqualsIgnoreCase(SubSeq(hay, i, i + Len(kw) - 1), kw)

\* How many of the keywords (counted as listed) occur in hay.
KeywordHits(hay, keywords) ==
    Cardinality({ k \in 1..Len(keywords) : OccursIgnoringCase(hay, keywords[k]) })

Haystack(i) == FullText(news[i], entities[i])

RowsOf(tbl, i) == { r \in DOMAIN tbl : r.news_id = i }

\* The Link rows of item i, as a bag.
LinksOf(tbl, i) == [r \in RowsOf(tbl, i) |-> tbl[r]]

\* Targets and scores of item i, the item's id left out.
TargetsOf(tbl, i) ==
    [x \in { <<r.asset_ticker, r.index_code, r.score>> : r \in RowsOf(tbl, i) } |->
        tbl[Link(i, x[1], x[2], x[3])]]

\* C1: linking is idempotent: a link_news pass over the data of the pass before
\* it leaves exactly the Link rows that pass left (same item, target, score,
\* each once), and no completed pass leaves a row twice.
C1_LinkIdempotent ==
    last = "link_ok" =>
        /\ unchanged => links = links0
        /\ \A r \in DOMAIN links : links[r] = 1

C1_Witness ==
    /\ last = "link_ok"
    /\ unchanged
    /\ Cardinality(DOMAIN links) >= 4

\* C2: after a completed pass the Link rows of each News item are exactly the
\* links its current title, summary and entity values yield: a link of an
\* earlier pass that the text no longer justifies is gone, and an item that
\* matches nothing has no Link row.
C2_LinksReflectLatestPass ==
    last = "link_ok" =>
        /\ \A r \in DOMAIN links : r.news_id \in 1..Len(news)
        /\ \A i \in 1..Len(news) :
              LinksOf(links, i) = SeqToBag(NewLinks(i, Haystack(i)))

C2_Witness ==
    /\ last = "link_ok"
    /\ \E i \in 1..Len(news) :
          /\ RowsOf(links0, i) # {}
          /\ RowsOf(links, i) = {}
          /\ NewLinks(i, Haystack(i)) = <<>>

\* C3: after a completed pass, for every news item and every asset group of
\* MAPPINGS, with score the number of the group's keywords (the name and every
\* alias ticker) that occur in the haystack, letter case ignored: if score > 0
\* each alias ticker has exactly one Link row of the item, carrying that score;
\* if score = 0 no ticker of the group has a row.
C3_AssetGroupScore ==
    last = "link_ok" =>
        \A i \in 1..Len(news) : \A g \in 1..Len(MAPPINGS) :
            LET m == MAPPINGS[g]
                score == KeywordHits(Haystack(i), <<m.name>> \o m.tickers)
            IN \A k \in 1..Len(m.tickers) :
                  LET rows == { r \in RowsOf(links, i) : r.asset_ticker = m.tickers[k] }
                  IN IF score > 0
                     THEN /\ rows = { Link(i, m.tickers[k], None, score) }
                          /\ \A r \in rows : links[r] = 1
                     ELSE rows = {}

C3_Witness ==
    /\ last = "link_ok"
    /\ \E i \in 1..Len(news) :
          /\ BagIn(Link(i, <<"H", "L", "A", "G", ".", "D", "E">>, None, 1), links)
          /\ BagIn(Link(i, <<"H", "L", "A", "G", ".", "F">>, None, 1), links)
          /\ BagIn(Link(i, <<"M", "A", "E", "R", "S", "K", "-", "B", ".", "C", "O">>, None, 2), links)
          /\ \A r \in RowsOf(links, i) : r.asset_ticker # <<"1", "9", "1", "9", ".", "H", "K">>
    /\ \E j \in 1..Len(news) : BagIn(Link(j, <<"Z", "I", "M">>, None, 2), links)

\* C4: after a completed pass, for every news item and every index of
\* INDEX_KEYWORDS, with score the number of the index's keyword phrases that
\* occur in the haystack: if score > 0 the item has exactly one Link row for
\* that index code, carrying that score; otherwise none.
C4_IndexScore ==
    last = "link_ok" =>
        \A i \in 1..Len(news) : \A x \in 1..Len(INDEX_KEYWORDS) :
            LET e == INDEX_KEYWORDS[x]
                score == KeywordHits(Haystack(i), e.keywords)
                rows == { r \in RowsOf(links, i) : r.index_code = e.code }
            IN IF score > 0
               THEN /\ rows = { Link(i, None, e.code, score) }
                    /\ \A r \in rows : links[r] = 1
               ELSE rows = {}

C4_Witness ==
    /\ last = "link_ok"
    /\ \E i \in 1..Len(news) :
          /\ BagIn(Link(i, None, <<"W", "C", "I">>, 2), links)
          /\ BagIn(Link(i, None, <<"F", "B", "X">>, 1), links)
          /\ \A r \in RowsOf(links, i) : r.index_code # <<"S", "C", "F", "I">>

\* C5: keyword matching is case-insensitive: after a completed pass, two news
\* items whose texts differ only in the case of their letters have the same
\* link targets with the same scores.
C5_CaseInsensitive ==
    last = "link_ok" =>
        \A i, j \in 1..Len(news) :
            EqualsIgnoreCase(Haystack(i), Haystack(j)) =>
                TargetsOf(links, i) = TargetsOf(links, j)

C5_Witness ==
    /\ last = "link_ok"
    /\ \E i, j \in 1..Len(news) :
          /\ Haystack(i) # Haystack(j)
          /\ EqualsIgnoreCase(Haystack(i), Haystack(j))
          /\ RowsOf(links, i) # {}

\* C6: a linking pass is all-or-nothing: when a database write fails during
\* link_news the error reaches the caller and table links is exactly as it
\* was when the call began; no deletion or insertion of the pass is kept.
C6_FailedPassRollsBack ==
    last = "link_error" => links = links0

C6_Witness ==
    /\ last = "link_error"
    /\ lost
    /\ links # EmptyBag

(***************************************************************************)
(* The contract of the analytics.                                          *)
(***************************************************************************)
\* The stored prices of one ticker, and the one just before p among them.
PricesOf(ticker) == { p \in prices : assets[p.asset_id] = ticker }

Previous(p) ==
    CHOOSE o \in prices :
        /\ o.asset_id = p.asset_id /\ o.date < p.date
        /\ \A x \in prices : (x.asset_id = p.asset_id /\ x.date < p.date) => x.date <= o.date

\* C7: compute_daily_returns(tickers) returns, for each requested ticker with
\* n >= 2 close prices, exactly n-1 rows: one per consecutive pair of the
\* ticker's own prices, dated at the later price, with
\* ret = close[i]/close[i-1] - 1; the earliest date of a ticker has no row.
C7_DailyReturns ==
    result.fn = "compute_daily_returns" =>
        \A tk \in Range(result.args) :
            Cardinality(PricesOf(tk)) >= 2 =>
                /\ result.status = "ok"
                /\ LET P == PricesOf(tk)
                       rows == { i \in 1..Len(result.value) : result.value[i].ticker = tk }
                   IN /\ Cardinality(rows) = Cardinality(P) - 1
                      /\ \A p \in P :
                            LET at == { i \in rows : result.value[i].date = p.date }
                            IN IF \E o \in P : o.date < p.date
                               THEN /\ Cardinality(at) = 1
                                    /\ \A i \in at :
                                          FracEq(Frac(result.value[i].ret.num + result.value[i].ret.den,
                                                      result.value[i].ret.den),
                                                 Frac(p.close, Previous(p).close))
                               ELSE at = {}

\* The News rows published on a calendar date.
PublishedOn(day) ==
    { i \in 1..Len(news) : news[i].published_at # NaT /\ DateOf(news[i].published_at) = day }

NewsDates ==
    { DateOf(news[i].published_at) : i \in { i \in 1..Len(news) : news[i].published_at # NaT } }

SummaryLength(i) == IF news[i].summary_ai = None THEN 0 ELSE Len(news[i].summary_ai)

\* C8: news_intensity returns one row per calendar date that has a news item;
\* its news_count is the number of News rows published on that date and its
\* avg_sentiment the mean length of their derived summaries, a null or empty
\* summary counting 0.
C8_NewsIntensity ==
    (result.fn = "news_intensity" /\ NewsDates # {}) =>
        /\ result.status = "ok"
        /\ { result.value[k].date : k \in 1..Len(result.value) } = NewsDates
        /\ Len(result.value) = Cardinality(NewsDates)
        /\ \A k \in 1..Len(result.value) :
              LET on == PublishedOn(result.value[k].date)
              IN /\ result.value[k].news_count = Cardinality(on)
                 /\ FracEq(result.value[k].avg_sentiment,
                           Frac(SumOver(on, [i \in 1..Len(news) |-> SummaryLength(i)]),
                                Cardinality(on)))

\* The tickers and the dates of the returns table handed to rolling_corr.
ReturnsIn == ComputeDailyReturns(result.args.tickers)
TickersIn == { r.ticker : r \in Range(ReturnsIn) }
DatesIn == { r.date : r \in Range(ReturnsIn) }

\* C9: rolling_corr(returns, window) emits for every unordered pair of tickers
\* of the returns table exactly one row per date, labelled "A-B"; the
\* correlation is null when fewer than window observations are available up
\* to the date, so the first window-1 rows of a pair are null, and all rows
\* are null when the window is larger than the history.
C9_RollingCorr ==
    (result.fn = "rolling_corr" /\ Cardinality(TickersIn) >= 2) =>
        /\ result.status = "ok"
        /\ \A a, b \in TickersIn : a # b =>
              LET labels == { a \o <<"-">> \o b, b \o <<"-">> \o a }
                  rows == { k \in 1..Len(result.value) : result.value[k].pair \in labels }
              IN /\ \A d \in DatesIn :
                        Cardinality({ k \in rows : result.value[k].date = d }) = 1
                 /\ \A k \in rows : result.value[k].date \in DatesIn
                 /\ Cardinality({ result.value[k].pair : k \in rows }) = 1
                 /\ \A k \in rows :
                        Cardinality({ d \in DatesIn : d <= result.value[k].date })
                            < result.args.window
                        => result.value[k].corr = NaN

\* The calendar dates of the news linked to a ticker, and the calendar dates
\* on which a ticker of the watchlist has a return: those of its prices but
\* the earliest.
LinkedDates(ticker) ==
    { DateOf(news[r.news_id].published_at) :
        r \in { r \in DOMAIN links : r.asset_ticker = ticker } }

ReturnDates(ticker) ==
    IF ticker \in Range(WATCHLIST_TICKERS)
    THEN { DateOf(p.date) :
             p \in { p \in PricesOf(ticker) : \E o \in PricesOf(ticker) : o.date < p.date } }
    ELSE {}

\* The event dates that contribute to the offset d.
Contributing(ticker, d) == { ed \in LinkedDates(ticker) : ed + d \in ReturnDates(ticker) }

\* C10: event_study(ticker, window=(w0,w1)) aggregates per relative offset d
\* the abnormal returns of the ticker on the days event_date + d over all
\* event dates, w0 <= d <= w1 inclusive: every rel_day of the output lies in
\* [w0, w1], its n_events is the number of event dates for which the ticker
\* has a return on event_date + d, and an offset without a contributing day
\* has no row.
C10_EventStudyOffsets ==
    (/\ result.fn = "event_study"
     /\ \E d \in result.args.window[1]..result.args.window[2] :
           Contributing(result.args.ticker, d) # {})
    => /\ result.status = "ok"
       /\ \A k \in 1..Len(result.value) :
             result.value[k].rel_day \in result.args.window[1]..result.args.window[2]
       /\ \A d \in result.args.window[1]..result.args.window[2] :
             LET rows == { k \in 1..Len(result.value) : result.value[k].rel_day = d }
                 n == Cardinality(Contributing(result.args.ticker, d))
             IN IF n = 0 THEN rows = {}
                ELSE /\ Cardinality(rows) = 1
                     /\ \A k \in rows : /\ result.value[k].n_events = n
                                        /\ Len(result.value[k].abrets) = n

\* The pairs of an event date and a later or earlier date with a return of
\* the ticker that the window joins.
EventPairs(ticker, window) ==
    { x \in LinkedDates(ticker) \X ReturnDates(ticker) :
        x[2] - x[1] \in window[1]..window[2] }

\* C11: the event dates of event_study(ticker) are the distinct calendar
\* dates on which some News item has a Link to the ticker.  Several linked
\* items or Link rows of one date count once, so the n_events of the rows add
\* up to the number of pairs (event date, date with a return) inside the
\* window; news linked only to other tickers or to index codes gives no
\* event date, so a ticker without a Link of its own gets the empty result.
C11_EventDates ==
    (result.fn = "event_study" /\ links # EmptyBag)
    => /\ result.status = "ok"
       /\ LinkedDates(result.args.ticker) = {} => result.value = <<>>
       /\ SumOver(1..Len(result.value),
                  [k \in 1..Len(result.value) |-> result.value[k].n_events])
            = Cardinality(EventPairs(result.args.ticker, result.args.window))
       /\ \A k \in 1..Len(result.value) :
             result.value[k].n_events <= Cardinality(LinkedDates(result.args.ticker))

\* The daily return of a ticker at a timestamp: its close there over its
\* previous close, less one.
PricedAt(ticker, ts) == { p \in PricesOf(ticker) : p.date = ts }

HasReturnAt(ticker, ts) ==
    \E p \in PricedAt(ticker, ts) : \E o \in PricesOf(ticker) : o.date < ts

ReturnAt(ticker, ts) ==
    LET p == CHOOSE p \in PricedAt(ticker, ts) : TRUE
    IN Frac(p.close - Previous(p).close, Previous(p).close)

\* The equal-weight mean of the returns of the watchlist at a timestamp.
MarketReturnAt(ts) ==
    LET with == { i \in 1..Len(WATCHLIST_TICKERS) : HasReturnAt(WATCHLIST_TICKERS[i], ts) }
    IN FracMean(with, [i \in 1..Len(WATCHLIST_TICKERS) |->
                          IF i \in with THEN ReturnAt(WATCHLIST_TICKERS[i], ts) ELSE Frac(0, 1)])

SameReturnsAt(ts) ==
    \A i, j \in 1..Len(WATCHLIST_TICKERS) :
        (HasReturnAt(WATCHLIST_TICKERS[i], ts) /\ HasReturnAt(WATCHLIST_TICKERS[j], ts))
        => FracEq(ReturnAt(WATCHLIST_TICKERS[i], ts), ReturnAt(WATCHLIST_TICKERS[j], ts))

\* C12: in event_study the market return of a day is the equal-weight mean
\* of the daily returns across the watchlist, and the abnormal return of the
\* ticker is its own return less that mean; so the abnormal returns of the
\* row of offset d are, event date by event date, the ticker's return on
\* event date + d less the market return of that day, and 0 on a day on
\* which all returns of the watchlist are the same.
C12_AbnormalReturns ==
    (result.fn = "event_study" /\ EventPairs(result.args.ticker, result.args.window) # {})
    => /\ result.status = "ok"
       /\ \A k \in 1..Len(result.value) :
             LET tk == result.args.ticker
                 eds == SortedInts(Contributing(tk, result.value[k].rel_day))
                 day(n) == Midnight(eds[n] + result.value[k].rel_day)
             IN /\ Len(result.value[k].abrets) = Len(eds)
                /\ \A n \in 1..Len(eds) :
                      /\ FracEq(result.value[k].abrets[n],
                                FracSub(ReturnAt(tk, day(n)), MarketReturnAt(day(n))))
                      /\ SameReturnsAt(day(n)) => result.value[k].abrets[n].num = 0

\* C13: event_study persists its aggregate in the Run log: a call that
\* returns a non-empty aggregate (some event date has a return of the ticker
\* inside the window) appends exactly one Run row, named
\* event_study_<ticker> and holding the returned rows; a call that returns
\* the empty result appends none.
C13_RunLog ==
    [][result'.fn = "event_study" =>
          IF EventPairs(result'.args.ticker, result'.args.window) # {}
          THEN /\ result'.status = "ok"
               /\ result'.value # <<>>
               /\ runs' = Append(runs, [name |-> <<"event_study_">> \o result'.args.ticker,
                                        data |-> result'.value])
          ELSE runs' = runs]_vars

\* The legitimate empty inputs of a call: an empty ticker list or no price of
\* the tickers; no news; a returns table of at most one ticker; no returns of
\* the watchlist or no news linked to the ticker.
EmptyInput(call) ==
    CASE call.fn = "compute_daily_returns" ->
             \A tk \in Range(call.args) : PricesOf(tk) = {}
      [] call.fn = "news_intensity" -> news = <<>>
      [] call.fn = "rolling_corr" ->
             Cardinality({ tk \in Range(call.args.tickers) :
                             Cardinality(PricesOf(tk)) >= 2 }) <= 1
      [] call.fn = "event_study" ->
             \/ \A i \in 1..Len(WATCHLIST_TICKERS) :
                   Cardinality(PricesOf(WATCHLIST_TICKERS[i])) < 2
             \/ LinkedDates(call.args.ticker) = {}
      [] OTHER -> FALSE

\* C14: none of the four analytics functions raises on legitimate empty
\* input: with an empty ticker list, no matching prices, no news, no linked
\* news, or a single-ticker returns table, each returns its empty result and
\* leaves the database unchanged.
C14_EmptyInputs ==
    [][(result'.fn # "none" /\ EmptyInput(result'))
          => /\ result'.status = "ok"
             /\ result'.value = <<>>
             /\ UNCHANGED <<news, entities, links, assets, prices, runs, indices, points>>]_vars

\* C15: News.url is the idempotency key of ingestion: there is at most one
\* News row per URL; upsert_news returns the number of distinct URLs of the
\* frame that were not stored before the call, which is the number of rows it
\* adds; a frame whose URLs are all stored adds no row and returns 0.
C15_UrlIdempotencyKey ==
    /\ [](\A i, j \in 1..Len(news) : news[i].url = news[j].url => i = j)
    /\ [][\A batch \in NewsBatches :
             UpsertNews(batch) =>
                 /\ result'.value = Cardinality(UrlsOf(batch) \ UrlsOf(news))
                 /\ Len(news') = Len(news) + result'.value
                 /\ UrlsOf(batch) \subseteq UrlsOf(news)
                       => (result'.value = 0 /\ Len(news') = Len(news))]_vars

\* A frame of stored URLs was upserted into a table of two rows.
C15_Witness ==
    /\ result.fn = "upsert_news"
    /\ result.value = 0
    /\ Len(news) = 2
    /\ \E i \in 1..Len(news) : news[i].title = <<"p", "o", "r", "t">>

\* The last row of a frame for the (ticker, date) of its row i.
LastFor(df, i) ==
    df[CHOOSE j \in 1..Len(df) :
          /\ df[j].ticker = df[i].ticker /\ df[j].date = df[i].date
          /\ \A k \in (j + 1)..Len(df) :
                ~(df[k].ticker = df[i].ticker /\ df[k].date = df[i].date)]

KeysOf(tbl) == { <<p.asset_id, p.date>> : p \in tbl }

\* C16: after any sequence of upsert_prices calls there is exactly one Asset
\* row per ticker seen and at most one Price row per (asset, date); a row for
\* a stored (asset, date) replaces the close of that Price row and adds none,
\* and the other Price rows stay as they are.
C16_PriceKeys ==
    /\ [](/\ \A i, j \in 1..Len(assets) : assets[i] = assets[j] => i = j
          /\ \A p, q \in prices : (p.asset_id = q.asset_id /\ p.date = q.date) => p = q)
    /\ [][\A df \in FrameBatches \cup RevisionBatches :
             UpsertPrices(df) =>
                 /\ Range(assets') = Range(assets) \cup { df[i].ticker : i \in 1..Len(df) }
                 /\ \A a \in 1..Len(assets) : assets'[a] = assets[a]
                 /\ \A i \in 1..Len(df) :
                       \E p \in prices' : /\ assets'[p.asset_id] = df[i].ticker
                                          /\ p.date = df[i].date
                                          /\ p.close = LastFor(df, i).close
                 /\ KeysOf(prices') =
                       KeysOf(prices) \cup { <<AssetId(assets', df[i].ticker), df[i].date>> :
                                               i \in 1..Len(df) }
                 /\ \A p \in prices :
                       p \in prices' \/ \E i \in 1..Len(df) :
                                           /\ assets[p.asset_id] = df[i].ticker
                                           /\ p.date = df[i].date]_vars

\* AAA's close of a day was revised while BBB is stored beside it.
C16_Witness ==
    /\ \E p \in PricesOf(AAA) : p.close = 105
    /\ Cardinality(PricesOf(AAA)) = 2
    /\ PricesOf(BBB) # {}

\* The values stored for a code and a date.
ValuesAt(idx, pts, code, date) ==
    { r.value : r \in { r \in DOMAIN pts : /\ r.index_id \in 1..Len(idx)
                                           /\ idx[r.index_id] = code
                                           /\ r.date = date } }

\* The rows an operation upserts, in its order, and the last of them for
\* the (index_code, date) of row i.
ScrapedRows(pages, today) ==
    Concat([k \in 1..Len(SCRAPERS) |-> ScraperFrame(k, pages[k], today)])

LastUpsert(rows, i) ==
    rows[CHOOSE j \in 1..Len(rows) :
            /\ rows[j].index_code = rows[i].index_code /\ rows[j].date = rows[i].date
            /\ \A k \in (j + 1)..Len(rows) :
                  ~(rows[k].index_code = rows[i].index_code /\ rows[k].date = rows[i].date)]

\* After the rows were upserted every (index_code, date) among them holds
\* the value of its last row, and every other one what it held.
HoldsLatest(rows) ==
    /\ \A i \in 1..Len(rows) :
          ValuesAt(indices', points', rows[i].index_code, rows[i].date)
              = { LastUpsert(rows, i).value }
    /\ \A code \in Range(indices') : \A d \in 0..(2 * MaxDays) :
          (\A i \in 1..Len(rows) : ~(rows[i].index_code = code /\ rows[i].date = d))
          => ValuesAt(indices', points', code, d) = ValuesAt(indices, points, code, d)

\* C17: after any sequence of index upserts (import_indices_from_csv and the
\* scraper upserts of refresh_indices), a frame with the same
\* (index_code, date) twice included, there is exactly one Index row per
\* code and at most one IndexPoint row per (index, date), and that point
\* holds the value of the most recent upsert for the pair.
C17_IndexKeys ==
    /\ [](/\ \A i, j \in 1..Len(indices) : indices[i] = indices[j] => i = j
          /\ \A r \in DOMAIN points : points[r] = 1 /\ r.index_id \in 1..Len(indices)
          /\ \A r, s \in DOMAIN points :
                (r.index_id = s.index_id /\ r.date = s.date) => r = s)
    /\ [][/\ result'.fn = "import_indices_from_csv" =>
                \A file \in CsvFiles :
                    ImportIndicesFromCsv(file) => HoldsLatest(CsvFrame(file))
          /\ result'.fn = "refresh_indices" =>
                \A file \in RefreshFiles : \A pages \in Pages :
                    RefreshIndices(file, pages, 1, {})
                        => HoldsLatest(CsvFrame(file) \o ScrapedRows(pages, 1))]_vars

\* A CSV import set HARPEX's point of day 1, scraped as 1 before, to 2: WCI
\* is stored and SCFI is not, so the refresh that stored WCI had HARPEX up.
C17_Witness ==
    /\ result.fn = "import_indices_from_csv"
    /\ IndexId(indices, WCI) # 0
    /\ IndexId(indices, SCFI) = 0
    /\ ValuesAt(indices, points, HARPEX, Midnight(1)) = {2}
    /\ ValuesAt(indices, points, TEST, Midnight(2)) # {}

\* A row of a CSV file that the import keeps: no cell empty, a well-formed
\* date, a number.
SoundRow(r) ==
    /\ r.date.kind = "date"
    /\ r.index_code # NoCode
    /\ r.value.kind = "number"
    /\ r.source.kind # "null"

\* The sound rows of a file as (index_code, date, value).
SoundRows(file) ==
    LET kept == SelectSeq(file.rows, SoundRow)
    IN [k \in 1..Len(kept) |->
           [date |-> Midnight(kept[k].date.v),
            index_code |-> kept[k].index_code,
            value |-> kept[k].value.v]]

\* C18: import_indices_from_csv is a no-op, and no error, when the file is
\* missing or lacks one of the columns date, index_code, value, source;
\* otherwise the rows with an empty cell or an unparsable date or number are
\* dropped and every other row is upserted, so that a file with a single
\* valid row yields, in an empty database, exactly one Index and one
\* IndexPoint with the parsed value and date.
C18_CsvImport ==
    [][result'.fn = "import_indices_from_csv" =>
          \A file \in CsvFiles :
              ImportIndicesFromCsv(file) =>
                  /\ result'.status = "ok"
                  /\ IF ~file.exists \/ ~(CsvColumns \subseteq file.columns)
                     THEN UNCHANGED <<indices, points>>
                     ELSE /\ HoldsLatest(SoundRows(file))
                          /\ Range(indices') =
                                Range(indices) \cup { r.index_code : r \in Range(SoundRows(file)) }
                          /\ (Len(SoundRows(file)) = 1 /\ indices = <<>> /\ points = EmptyBag)
                             => /\ indices' = << SoundRows(file)[1].index_code >>
                                /\ points' = SetToBag({ [index_id |-> 1,
                                                         date |-> SoundRows(file)[1].date,
                                                         value |-> SoundRows(file)[1].value] })]_vars

\* What the table news stores of the feed for URL u.
StoredOf(tbl, u) ==
    { [url |-> tbl[i].url, title |-> tbl[i].title, summary |-> tbl[i].summary,
       published_at |-> tbl[i].published_at] : i \in { i \in 1..Len(tbl) : tbl[i].url = u } }

\* The feeds that are up and deliver URL u.
Delivering(feeds, u) ==
    { k \in DOMAIN feeds : feeds[k].ok /\ u \in UrlsOf(feeds[k].entries) }

\* The entry of feed k for URL u, as the table stores it.
EntryOf(feeds, k, u) ==
    { [url |-> r.url, title |-> r.title, summary |-> r.summary, published_at |-> r.ts] :
        r \in { r \in Range(feeds[k].entries) : r.url = u } }

\* The points stored for an index code.
PointsOf(idx, pts, code) ==
    { [date |-> r.date, value |-> r.value] :
        r \in { r \in DOMAIN pts : idx[r.index_id] = code } }

\* C19: a failing external source never aborts the refresh.  When the price
\* download, an index scraper or an RSS feed fails, refresh-all still ends
\* without an error having run its five steps; the failed source leaves the
\* rows stored for it as they were; every other scraper and feed has its
\* data stored; the news are enriched and linked.
C19_FailureIsNoData ==
    [][result'.fn = "refresh_all" =>
          \A download \in Downloads : \A file \in RefreshFiles :
          \A pages \in RefreshPages : \A feeds \in Feeds :
              RefreshAll(download, file, pages, 1, feeds) =>
                  /\ result'.status = "ok"
                  /\ result'.steps = RefreshSteps
                  /\ IF download.ok
                     THEN \A r \in Range(download.rows) :
                              \E p \in prices' :
                                  /\ assets'[p.asset_id] = r.ticker
                                  /\ p.date = r.date
                                  /\ p.close = r.close
                     ELSE assets' = assets /\ prices' = prices
                  /\ \A k \in 1..Len(SCRAPERS) :
                        IF pages[k].ok
                        THEN ValuesAt(indices', points', SCRAPERS[k], Midnight(1))
                                 = {pages[k].value}
                        ELSE (\A r \in Range(CsvFrame(file)) : r.index_code # SCRAPERS[k])
                                 => PointsOf(indices', points', SCRAPERS[k])
                                        = PointsOf(indices, points, SCRAPERS[k])
                  /\ \A u \in Urls :
                        IF Delivering(feeds, u) = {}
                        THEN StoredOf(news', u) = StoredOf(news, u)
                        ELSE StoredOf(news', u)
                                 = EntryOf(feeds, CHOOSE k \in Delivering(feeds, u) :
                                                      \A j \in Delivering(feeds, u) : j <= k, u)
                  /\ EnrichTodo(news', entities') = {}
                  /\ last' = "link_ok"
                  /\ \A i \in 1..Len(news') :
                        LinksOf(links', i)
                            = SeqToBag(NewLinks(i, FullText(news'[i], entities'[i])))]_vars

\* C20: database errors are not caught.  Whenever the database fails inside
\* an operation (an index upsert of refresh_indices, a table read of
\* build_site), the operation ends in that error: none ends well having
\* taken the error for missing data.
C20_DatabaseErrorsPropagate ==
    (result.fn \in {"refresh_indices", "build_site"} /\ result.status = "ok")
        => result.caught = {}

\* C21: the table runs is an append-only audit log.  No operation makes it
\* shorter, deletes a row of it, or changes a row that was committed: every
\* row stays what it was, at its place.
C21_RunsAppendOnly ==
    [][/\ Len(runs') >= Len(runs)
       /\ \A i \in 1..Len(runs) : runs'[i] = runs[i]]_vars

\* A database that holds a Run, after a completed pass of link_news over a
\* stored news item.
C21_Witness ==
    /\ runs = <<StoredRun>>
    /\ last = "link_ok"
    /\ news # <<>>
    /\ prices # {}

\* C22, as the specification words it: enrich_news, run over an item that
\* already has Entity rows, extracts its entities and inserts them again.
C22_EnrichmentDuplicates ==
    [][result'.fn = "enrich_news" =>
          \A i \in 1..Len(news) :
              entities[i] # <<>> =>
                  entities'[i] = entities[i]
                      \o ExtractEntities(news[i].title \o <<".", " ">> \o OrEmpty(news[i].summary))]_vars

\* C22, as the code has it: enrich_news selects the items without a derived
\* summary and without an Entity row only.  An item that has Entity rows is
\* not among the selected ones and keeps its rows and its derived summary,
\* so that no run duplicates the entity rows of an item; the selected items
\* had none.
C22_EnrichSkipsItemsWithEntities ==
    [][result'.fn = "enrich_news" =>
          /\ \A i \in 1..Len(news) :
                entities[i] # <<>> =>
                    /\ i \notin result'.items
                    /\ entities'[i] = entities[i]
                    /\ news'[i] = news[i]
          /\ \A i \in result'.items : entities[i] = <<>>]_vars

\* enrich_news has just run over an item and passed over another one that
\* has an Entity row from an earlier run.
C22_Witness ==
    /\ result.fn = "enrich_news"
    /\ result.items # {}
    /\ \E i \in 1..Len(news) : i \notin result.items /\ Len(entities[i]) = 1

\* C23: every Link row that link_news writes has exactly one target: the
\* asset ticker is set and the index code is null, or the index code is set
\* and the asset ticker is null.  This holds of the committed table and of
\* the table inside the open transaction.
C23_OneTarget ==
    \A r \in DOMAIN links \cup DOMAIN tx_links :
        \/ r.asset_ticker \notin {None, <<>>} /\ r.index_code = None
        \/ r.index_code \notin {None, <<>>} /\ r.asset_ticker = None

\* A committed pass that linked one item to an asset and to an index.
C23_Witness ==
    /\ last = "link_ok"
    /\ \E r, s \in DOMAIN links :
          /\ r.news_id = s.news_id
          /\ r.asset_ticker # None
          /\ s.index_code # None

\* C24: refresh-all runs prices, indices, news, enrich, link in this order,
\* each to completion before the next.  The command ends having run the
\* five steps with no transaction left open; enrich_news saw the news of
\* this invocation (none is left to enrich) and link_news saw the enriched
\* news (the links of every item are those of its final text).  Within
\* refresh_indices the CSV import precedes the scrapers: where the file and
\* a scraper give a value for the same index and date, the scraper's stays.
C24_StepOrder ==
    /\ [][result'.fn = "refresh_all" =>
             /\ result'.steps = RefreshSteps
             /\ pc' = "idle"
             /\ EnrichTodo(news', entities') = {}
             /\ \A i \in 1..Len(news') :
                   LinksOf(links', i)
                       = SeqToBag(NewLinks(i, FullText(news'[i], entities'[i])))]_vars
    /\ [][(result'.fn = "refresh_indices" /\ result'.status = "ok") =>
             \A file \in RefreshFiles : \A pages \in RefreshPages : \A dberr \in DbErrors :
                 RefreshIndices(file, pages, 1, dberr) =>
                     \A k \in 1..Len(SCRAPERS) :
                         (pages[k].ok /\ k \notin dberr) =>
                             ValuesAt(indices', points', SCRAPERS[k], Midnight(1))
                                 = {pages[k].value}]_vars

\* The first item of a feed for each of its URLs, in the feed's order.
FirstOccurrences(entries) ==
    SelectSeq([i \in 1..Len(entries) |->
                  IF \E j \in 1..(i - 1) : entries[j].url = entries[i].url
                  THEN [skip |-> TRUE] ELSE entries[i]],
              LAMBDA r : "skip" \notin DOMAIN r)

\* C25: refresh_news never hands upsert_news two rows with the same URL
\* within one feed.  Of the items of a feed that share a URL the first
\* alone is passed on; a feed without items causes no upsert: the frames
\* handed to upsert_news are, in order, the first occurrences of the feeds
\* that delivered something.
C25_OneRowPerUrl ==
    /\ [](result.fn = "refresh_news" =>
             \A c \in 1..Len(result.upserts) :
                 /\ result.upserts[c] # <<>>
                 /\ Len(result.upserts) = Cardinality({ k \in 1..Len(result.fetched) :
                                                          result.fetched[k] > 0 })
                 /\ \A i, j \in 1..Len(result.upserts[c]) :
                       result.upserts[c][i].url = result.upserts[c][j].url => i = j)
    /\ [][result'.fn = "refresh_news" =>
             \A feeds \in FeedLists :
                 RefreshNews(feeds) =>
                     result'.upserts =
                         SelectSeq([k \in 1..Len(feeds) |->
                                       IF feeds[k].ok THEN FirstOccurrences(feeds[k].entries)
                                       ELSE <<>>],
                                   LAMBDA df : df # <<>>)]_vars

\* The first feed delivered two items under one URL and the others none:
\* one frame of one row went to upsert_news, and the table holds one row.
C25_Witness ==
    /\ result.fn = "refresh_news"
    /\ result.fetched = <<2, 0, 0>>
    /\ Len(result.upserts) = 1
    /\ Len(result.upserts[1]) = 1
    /\ Len(news) = 1
    /\ news[1].title = <<"Z", "I", "M">>
    /\ news[1].url = 1

\* C26: event_study returns a non-empty result for tickers of
\* WATCHLIST_TICKERS only.  Called for a ticker outside the watchlist, such
\* as the alias MAERSK-B.CO of the linker, it returns the empty result and
\* appends no Run row, whatever news are linked to the ticker and whatever
\* prices are stored for it.
C26_WatchlistOnly ==
    [][(result'.fn = "event_study" /\ result'.args.ticker \notin Range(WATCHLIST_TICKERS))
          => /\ result'.status = "ok"
             /\ result'.value = <<>>
             /\ runs' = runs]_vars

\* C27: upsert_news of a URL that is stored changes nothing but that row's
\* title, summary, source and published_at.  Every stored row keeps its id
\* (its place), its URL and its derived summary; a row whose URL is not in
\* the frame keeps all its fields; the Entity and the Link rows are as they
\* were.
C27_UpsertFrame ==
    [][result'.fn = "upsert_news" =>
       \A batch \in Batches :
          UpsertNews(batch) =>
              /\ Len(news') >= Len(news)
              /\ \A i \in 1..Len(news) :
                    /\ news'[i].url = news[i].url
                    /\ news'[i].summary_ai = news[i].summary_ai
                    /\ news[i].url \notin UrlsOf(batch) => news'[i] = news[i]
              /\ entities' = entities
              /\ links' = links]_vars

\* The item stored and enriched as "ZIM" and linked to ZIM has just been
\* upserted again as "port": it keeps its derived summary, its entity and
\* its link.
C27_Witness ==
    /\ result.fn = "upsert_news"
    /\ result.value = 0
    /\ \E i \in 1..Len(news) :
          /\ news[i].title = <<"p", "o", "r", "t">>
          /\ news[i].summary_ai = <<"Z", "I", "M">>
          /\ entities[i] = << <<"Z", "I", "M">> >>
          /\ RowsOf(links, i) # {}

====
